---- MODULE Spec2Model ----
(***************************************************************************)
(* A model of src/stack.c (elfutils "stack"): the frame buffer filled by   *)
(* frame_callback, the per-thread driver thread_callback, the printing     *)
(* loop of print_frames with print_inline_frames and print_frame, and the  *)
(* exit decision of main.                                                   *)
(*                                                                         *)
(* The unwinder and the debug-info provider (libdwfl, libdw) are external: *)
(* the threads they enumerate, the frames they deliver and the scopes,     *)
(* symbols and lines they resolve are inputs, drawn from the tables below. *)
(* Memory allocation is taken to succeed (the error (EXIT_BAD, ...) exits  *)
(* after malloc and realloc are not modelled), and the output fields of    *)
(* show_module, show_build_id and show_modules are left out.               *)
(***************************************************************************)
EXTENDS Integers, Sequences, FiniteSets, TLC

(***************************************************************************)
(* Program constants.                                                      *)
(***************************************************************************)
EXIT_OK == 0
EXIT_ERROR == 1
EXIT_BAD == 2
DefaultMaxframes == 256
DefaultAllocated == 2048

\* Return values of the callbacks and of the walks (libdw.h); -1 is an error.
DWARF_CB_OK == "DWARF_CB_OK"
DWARF_CB_ABORT == "DWARF_CB_ABORT"
CB_ERROR == "-1"

\* The C null pointer, for names, modules and DIEs.
NULL == "NULL"

(***************************************************************************)
(* Bounds of the model.                                                    *)
(***************************************************************************)
\* The provider enumerates at most MaxThreads threads.
MaxThreads == 2
\* -n MAXFRAMES is given as 0..MaxCeiling, or not at all (the default, 256).
MaxCeiling == 3
\* Length of the deep stack of the growth specification (crosses 2048).
LongLen == 2049

(***************************************************************************)
(* Dwarf_Addr is uint64_t: an address is four 16-bit limbs, most           *)
(* significant first, and arithmetic wraps modulo 2^64.                    *)
(***************************************************************************)
LimbBase == 65536

Addr(hi, lo) == <<0, 0, hi, lo>>

RECURSIVE SubLimbs(_, _, _)
SubLimbs(a, i, borrow) ==
  IF i = 0 THEN a
  ELSE LET d == a[i] - borrow
       IN  IF d < 0 THEN SubLimbs([a EXCEPT ![i] = d + LimbBase], i - 1, 1)
                    ELSE SubLimbs([a EXCEPT ![i] = d], i - 1, 0)

\* a - k in uint64_t, for k in {0, 1}.
AddrSub(a, k) == SubLimbs(a, 4, k)

RECURSIVE AddLimbs(_, _, _)
AddLimbs(a, i, carry) ==
  IF i = 0 THEN a
  ELSE LET s == a[i] + carry
       IN  IF s >= LimbBase THEN AddLimbs([a EXCEPT ![i] = s - LimbBase], i - 1, 1)
                            ELSE AddLimbs([a EXCEPT ![i] = s], i - 1, 0)

\* a + k in uint64_t, for k in {0, 1}.
AddrAdd(a, k) == AddLimbs(a, 4, k)

AddrZero == <<0, 0, 0, 0>>
AddrMax == <<LimbBase - 1, LimbBase - 1, LimbBase - 1, LimbBase - 1>>
NoAddr == <<>>

(***************************************************************************)
(* The debug-info provider: modules, DIEs, scopes, symbols and lines of    *)
(* the inspected target.  These tables are the answers libdwfl and libdw   *)
(* give; the program only consumes them.                                   *)
(***************************************************************************)
\* ---- modules ----
\* gelf_getehdr (dwfl_module_getelf (mod))->e_ident[EI_CLASS], NULL when the
\* module's ELF file cannot be had.
ModClass(mod) ==
  CASE mod = "M64" -> "ELFCLASS64"
    [] mod = "M32" -> "ELFCLASS32"
    [] OTHER -> NULL

\* dwfl_module_info (mod, ...): the module name (NULL for no module).
ModName(mod) ==
  CASE mod = "M64" -> "libfoo.so"
    [] mod = "M32" -> ""
    [] mod = "Mnoelf" -> ""
    [] OTHER -> NULL

\* dwfl_module_info (mod, ..., &mainfile, ...).
ModMainFile(mod) ==
  CASE mod = "M64" -> "/usr/lib/libfoo.so"
    [] mod = "M32" -> "/bin/app32"
    [] OTHER -> NULL

\* ---- DIEs ----
DieTag(d) ==
  CASE d \in {"cu1", "cu2"} -> "DW_TAG_compile_unit"
    [] d \in {"main", "outer", "broken", "host", "nested", "inner"} ->
         "DW_TAG_subprogram"
    [] d \in {"anon", "inl_a", "inl_b"} -> "DW_TAG_inlined_subroutine"
    [] d \in {"ent"} -> "DW_TAG_entry_point"
    [] OTHER -> "DW_TAG_lexical_block"

DieParent(d) ==
  CASE d \in {"main", "outer", "broken"} -> "cu1"
    [] d = "anon" -> "main"
    [] d = "blkA" -> "outer"
    [] d = "inl_a" -> "blkA"
    [] d = "blkB" -> "inl_a"
    [] d = "inl_b" -> "blkB"
    [] d = "blkC" -> "inl_b"
    [] d = "host" -> "cu2"
    [] d \in {"nested", "ent"} -> "host"
    [] d = "inner" -> "nested"
    [] OTHER -> NULL

\* DW_AT_MIPS_linkage_name or DW_AT_linkage_name, NULL when absent.
DieLinkageName(d) ==
  CASE d = "outer" -> "_Z5outerv"
    [] d = "inl_b" -> "_Z5inl_bv"
    [] OTHER -> NULL

\* dwarf_diename, NULL when absent.
DieDiename(d) ==
  CASE d \in {"main", "outer", "broken", "host", "nested", "inner", "inl_a",
              "inl_b", "ent"} -> d
    [] OTHER -> NULL

\* DW_AT_call_file (resolved through the file table), DW_AT_call_line and
\* DW_AT_call_column of a DIE; NULL and -1 when the attribute is absent.
DieCall(d) ==
  CASE d = "inl_a" -> [file |-> "o.c", line |-> 10, col |-> 3]
    [] d = "inl_b" -> [file |-> "a.h", line |-> 20, col |-> -1]
    [] d = "anon"  -> [file |-> "m.c", line |-> -1, col |-> -1]
    [] OTHER -> [file |-> NULL, line |-> -1, col |-> -1]

RECURSIVE DieChain(_)
DieChain(d) == IF d = NULL THEN <<>> ELSE <<d>> \o DieChain(DieParent(d))

\* dwarf_getscopes_die (die, &scopes): the DIE and its ancestors, innermost
\* first; the empty sequence stands for a result <= 0.
dwarf_getscopes_die(die) ==
  IF die = "broken" THEN <<>> ELSE DieChain(die)

\* ---- addresses ----
NoInfo ==
  [mod |-> NULL, cudie |-> NULL, scopes |-> <<>>, addrname |-> NULL,
   src |-> [sname |-> NULL, line |-> -1, col |-> -1]]

\* What the provider knows about an (adjusted) address: dwfl_addrmodule,
\* dwfl_module_addrdie, dwarf_getscopes (innermost first, <<>> for <= 0),
\* dwfl_module_addrname and dwfl_module_getsrc with dwfl_lineinfo.
PcInfo(a) ==
  CASE a = Addr(0, 4096) ->      \* 0x1000
         [mod |-> "M64", cudie |-> "cu1", scopes |-> DieChain("main"),
          addrname |-> "main", src |-> [sname |-> "m.c", line |-> 5, col |-> 1]]
    [] a = Addr(0, 8199) ->      \* 0x2007
         [mod |-> "M64", cudie |-> "cu1", scopes |-> DieChain("blkC"),
          addrname |-> "_Z5outerv", src |-> [sname |-> "a.h", line |-> 30, col |-> 0]]
    [] a = Addr(0, 12299) ->     \* 0x300b
         [mod |-> "M32", cudie |-> "cu2", scopes |-> DieChain("nested"),
          addrname |-> "nested.0", src |-> [sname |-> "n.c", line |-> 0, col |-> 4]]
    [] a = Addr(0, 20483) ->     \* 0x5003
         [mod |-> "M64", cudie |-> "cu1", scopes |-> DieChain("anon"),
          addrname |-> "main.part.0", src |-> [sname |-> NULL, line |-> -1, col |-> -1]]
    [] a = Addr(0, 24579) ->     \* 0x6003
         [mod |-> "M64", cudie |-> "cu1", scopes |-> DieChain("broken"),
          addrname |-> "broken", src |-> [sname |-> "b.c", line |-> 7, col |-> 2]]
    [] a = Addr(0, 28675) ->     \* 0x7003
         [mod |-> "M32", cudie |-> NULL, scopes |-> <<>>,
          addrname |-> "_Zbad", src |-> [sname |-> NULL, line |-> -1, col |-> -1]]
    [] a = Addr(0, 32771) ->     \* 0x8003
         [mod |-> "M64", cudie |-> NULL, scopes |-> <<>>,
          addrname |-> "_Z3foov", src |-> [sname |-> "f.cc", line |-> 3, col |-> 9]]
    [] a = Addr(0, 36867) ->     \* 0x9003
         [mod |-> "Mnoelf", cudie |-> NULL, scopes |-> <<>>,
          addrname |-> NULL, src |-> [sname |-> NULL, line |-> -1, col |-> -1]]
    [] a = Addr(0, 40963) ->     \* 0xa003
         [mod |-> "M32", cudie |-> "cu2", scopes |-> DieChain("ent"),
          addrname |-> "host", src |-> [sname |-> "n.c", line |-> 12, col |-> 0]]
    [] a = Addr(0, 45059) ->     \* 0xb003
         [mod |-> "M32", cudie |-> "cu2", scopes |-> DieChain("inner"),
          addrname |-> NULL, src |-> [sname |-> "n.c", line |-> 15, col |-> 2]]
    [] OTHER -> NoInfo

dwfl_addrmodule(a) == PcInfo(a).mod
dwfl_module_addrdie(mod, a) == IF mod = NULL THEN NULL ELSE PcInfo(a).cudie
dwarf_getscopes(cudie, a) == IF cudie = NULL THEN <<>> ELSE PcInfo(a).scopes
dwfl_module_addrname(mod, a) == IF mod = NULL THEN NULL ELSE PcInfo(a).addrname
dwfl_module_getsrc(mod, a) ==
  IF mod = NULL THEN NoInfo.src ELSE PcInfo(a).src

\* __cxa_demangle: status 0 and the demangled name, or a failure status.
cxa_demangle(symname) ==
  CASE symname = "_Z5outerv" -> [status |-> 0, name |-> "outer()"]
    [] symname = "_Z5inl_bv" -> [status |-> 0, name |-> "inl_b()"]
    [] symname = "_Z3foov"   -> [status |-> 0, name |-> "foo()"]
    [] OTHER -> [status |-> -2, name |-> NULL]

\* The names that begin with "_Z" (symname[0] == '_' && symname[1] == 'Z').
HasZPrefix(symname) == symname \in {"_Z5outerv", "_Z5inl_bv", "_Z3foov", "_Zbad"}

(***************************************************************************)
(* The unwinder: the stacks a thread of the target can have.               *)
(***************************************************************************)
Fr(lo, act) == [pc |-> Addr(0, lo), isactivation |-> act]

\* Frame i of the deep stack: pc = 0x10000 + 16 * i, the innermost one an
\* activation.
LongFrame(i) ==
  [pc |-> Addr(1 + ((16 * i) \div LimbBase), (16 * i) % LimbBase),
   isactivation |-> (i = 1)]

\* The stacks by name: the frames the unwinder delivers, innermost first.
ShortStack(name) ==
  CASE name = "empty" -> <<>>
    [] name = "plain" ->
         << Fr(16400, FALSE), Fr(16416, FALSE), Fr(16432, FALSE) >>
    [] name = "five" ->
         << Fr(4096, TRUE), Fr(8200, FALSE), Fr(12300, FALSE),
            Fr(20484, FALSE), Fr(24580, FALSE) >>
    [] name = "inlined" ->
         << Fr(8199, TRUE), Fr(40964, FALSE) >>
    [] name = "names" ->
         << Fr(12300, FALSE), Fr(28676, FALSE), Fr(32772, FALSE),
            Fr(36868, FALSE) >>
    [] name = "wrap" ->
         << Fr(24580, FALSE), [pc |-> AddrZero, isactivation |-> FALSE],
            Fr(45060, FALSE) >>
    [] name = "one" -> << Fr(8200, FALSE) >>
    [] name = "lost" -> << Fr(24580, FALSE) >>

StackLen(name) == IF name = "deep" THEN LongLen ELSE Len(ShortStack(name))

StackFrame(name, i) == IF name = "deep" THEN LongFrame(i) ELSE ShortStack(name)[i]

ShortStacks == {"empty", "plain", "five", "inlined", "names", "wrap", "lost"}

LongStacks == {"deep", "one", "empty"}

\* How a walk of a thread ends once the unwinder has delivered the stack:
\* "end" when there are no more frames (the walk returns DWARF_CB_OK),
\* "error" when unwinding fails there (the walk returns -1).
ThreadKinds(stacks) ==
  { [stack |-> s, end |-> e] : s \in stacks, e \in {"end", "error"} }

\* dwfl_errno () after a walk that returned -1: a nonzero Dwfl_Error.
dwfl_errno == 1

(***************************************************************************)
(* Command line.                                                           *)
(***************************************************************************)
\* The options before argp_parse: the initialisers of the static flags.
DefaultOpts ==
  [maxframes |-> DefaultMaxframes, show_activation |-> FALSE,
   show_source |-> FALSE, show_one_tid |-> FALSE, show_quiet |-> FALSE,
   show_raw |-> FALSE, show_debugname |-> FALSE, show_inlines |-> FALSE]

\* parse_opt for one option key (arg is the number given to -n).
parse_opt(key, arg, o) ==
  CASE key = "s" -> [o EXCEPT !.show_source = TRUE]
    [] key = "a" -> [o EXCEPT !.show_activation = TRUE]
    [] key = "d" -> [o EXCEPT !.show_debugname = TRUE]
    [] key = "i" -> [o EXCEPT !.show_inlines = TRUE, !.show_debugname = TRUE]
    [] key = "v" -> [o EXCEPT !.show_activation = TRUE, !.show_source = TRUE,
                              !.show_debugname = TRUE, !.show_inlines = TRUE]
    [] key = "q" -> [o EXCEPT !.show_quiet = TRUE]
    [] key = "r" -> [o EXCEPT !.show_raw = TRUE]
    [] key = "1" -> [o EXCEPT !.show_one_tid = TRUE]
    [] key = "n" -> [o EXCEPT !.maxframes = arg]
    [] OTHER -> o

RECURSIVE argp_parse(_, _)
argp_parse(argv, o) ==
  IF argv = <<>> THEN o
  ELSE argp_parse(Tail(argv), parse_opt(Head(argv).key, Head(argv).arg, o))

Key(k) == [key |-> k, arg |-> 0]

\* The flag parts of the command lines tried.
FlagArgs ==
  { <<>>, <<Key("d")>>, <<Key("i")>>, <<Key("q")>>, <<Key("r")>>, <<Key("s")>>,
    <<Key("a")>>, <<Key("1")>>, <<Key("v")>>,
    <<Key("i"), Key("s")>>, <<Key("d"), Key("q")>>, <<Key("d"), Key("r")>>,
    <<Key("i"), Key("q")>>, <<Key("i"), Key("1")>> }

\* The -n parts: absent, or -n 0 .. -n MaxCeiling.
CeilingArgs == { <<>> } \cup { <<[key |-> "n", arg |-> n]>> : n \in 0..MaxCeiling }

CommandLines == { f \o c : f \in FlagArgs, c \in CeilingArgs }

\* The command lines of the growth specification: no ceiling, and one with
\* the ceiling MaxCeiling.
LongCommandLines ==
  { f \o <<[key |-> "n", arg |-> 0]>> : f \in { <<>>, <<Key("i")>>, <<Key("1")>> } }
    \cup { <<[key |-> "n", arg |-> MaxCeiling]>> }

(***************************************************************************)
(* State.                                                                  *)
(***************************************************************************)
VARIABLES
  maxframes, show_activation, show_source, show_one_tid, show_quiet,
  show_raw, show_debugname, show_inlines,   \* the static option flags
  frames,              \* struct frames: [frames, allocated, frame]
  frames_shown,        \* static bool frames_shown
  error_message_count, \* error.h: calls of error () so far
  width,               \* the static int width of get_addr_width
  at,                  \* where main is
  target,              \* the inspected target: [stacks, threads]
  thread,              \* the thread being walked: [tid, stack, end]
  delivered,           \* frames the unwinder has handed to frame_callback
  cb,                  \* what the last frame_callback returned
  dwflerr,             \* print_frames' dwflerr
  nr, frame_nr,        \* print_frames' loop index and line counter
  out,                 \* the frame lines printed for this thread
  outframe,            \* for each line of out, the index of its captured frame
  diag,                \* the diagnostics recorded for this thread
  nthreads,            \* threads the provider has handed out
  nprinted,            \* print_frames calls completed
  nlines,              \* frame lines printed in the whole run
  thread_ret,          \* what the last thread_callback returned
  getthreads_ret,      \* what dwfl_getthreads returned
  exit_status          \* the process exit status, once exited

optvars == <<maxframes, show_activation, show_source, show_one_tid, show_quiet,
             show_raw, show_debugname, show_inlines>>
vars == <<maxframes, show_activation, show_source, show_one_tid, show_quiet,
          show_raw, show_debugname, show_inlines, frames, frames_shown,
          error_message_count, width, at, target, thread, delivered, cb, dwflerr,
          nr, frame_nr, out, outframe, diag, nthreads, nprinted, nlines,
          thread_ret, getthreads_ret, exit_status>>

NoThread == [tid |-> 0, stack |-> "empty", end |-> "end"]
NoStatus == 0 - 1

\* The stacks the threads of a target can have: "process" is the target of
\* Spec, "deep" the one of the growth specification.
StacksOf(t) == IF t.stacks = "deep" THEN LongStacks ELSE ShortStacks

InitWith(argv, stacks, threads) ==
  /\ LET o == argp_parse(argv, DefaultOpts)
     IN  /\ maxframes = o.maxframes
         /\ show_activation = o.show_activation
         /\ show_source = o.show_source
         /\ show_one_tid = o.show_one_tid
         /\ show_quiet = o.show_quiet
         /\ show_raw = o.show_raw
         /\ show_debugname = o.show_debugname
         /\ show_inlines = o.show_inlines
  /\ \E n \in threads : target = [stacks |-> stacks, threads |-> n]
  /\ frames = [frames |-> 0, allocated |-> 0, frame |-> <<>>]
  /\ frames_shown = FALSE
  /\ error_message_count = 0
  /\ width = 0
  /\ at = "main"
  /\ thread = NoThread
  /\ delivered = 0
  /\ cb = DWARF_CB_OK
  /\ dwflerr = 0
  /\ nr = 0
  /\ frame_nr = 0
  /\ out = <<>>
  /\ outframe = <<>>
  /\ diag = <<>>
  /\ nthreads = 0
  /\ nprinted = 0
  /\ nlines = 0
  /\ thread_ret = DWARF_CB_OK
  /\ getthreads_ret = DWARF_CB_OK
  /\ exit_status = NoStatus

Init == \E argv \in CommandLines : InitWith(argv, "process", 0..MaxThreads)

InitLong == \E argv \in LongCommandLines : InitWith(argv, "deep", {0, 1})

(***************************************************************************)
(* Rendering: get_addr_width, die_name, print_frame, print_inline_frames.  *)
(***************************************************************************)
\* Whether the program is built with USE_DEMANGLE.
USE_DEMANGLE == TRUE

\* Mutant: the width taken from the module of each call, with no cache.
get_addr_width_nocache(mod, w) ==
  IF mod # NULL /\ ModClass(mod) = "ELFCLASS32" THEN 8 ELSE 16

\* get_addr_width (mod) with the static width being w: the value returned,
\* which is also the new value of the static.
get_addr_width(mod, w) ==
  LET w1 == IF w = 0 /\ mod # NULL /\ ModClass(mod) # NULL
            THEN (IF ModClass(mod) = "ELFCLASS32" THEN 8 ELSE 16)
            ELSE w
  IN  IF w1 = 0 THEN 16 ELSE w1

die_name(die) ==
  IF DieLinkageName(die) # NULL THEN DieLinkageName(die) ELSE DieDiename(die)

\* Mutant: demangling attempted in raw mode too.
RenderName_always(symname) ==
  IF symname = NULL THEN NULL
  ELSE IF USE_DEMANGLE /\ HasZPrefix(symname) /\ cxa_demangle(symname).status = 0
       THEN cxa_demangle(symname).name
       ELSE symname

\* The name print_frame prints for symname (NULL: none).
RenderName(symname) ==
  IF symname = NULL THEN NULL
  ELSE IF USE_DEMANGLE /\ ~show_raw /\ HasZPrefix(symname)
          /\ cxa_demangle(symname).status = 0
       THEN cxa_demangle(symname).name
       ELSE symname

\* Mutant: the source position always taken from the pc.
FrameSource_direct(pc_adjusted, mod, cudie, die) ==
  dwfl_module_getsrc(mod, pc_adjusted)

\* The source position print_frame finds: sname, line, col (NULL, -1, -1
\* when not found).
FrameSource(pc_adjusted, mod, cudie, die) ==
  IF die # NULL
  THEN LET c == DieCall(die)
       IN  IF cudie # NULL /\ c.file # NULL
           THEN [sname |-> c.file, line |-> c.line,
                 col |-> IF c.line >= 0 THEN c.col ELSE -1]
           ELSE [sname |-> NULL, line |-> -1, col |-> -1]
  ELSE dwfl_module_getsrc(mod, pc_adjusted)

\* What print_frame prints of a source position: nothing, the file, the
\* file and line, or the file, line and column.
RenderSource(s) ==
  IF s.sname = NULL THEN <<>>
  ELSE IF s.line > 0
       THEN (IF s.col > 0 THEN <<s.sname, s.line, s.col>> ELSE <<s.sname, s.line>>)
       ELSE <<s.sname>>

\* Mutant: the adjusted pc printed as the address of the line.
print_frame_adjusted(n, pc, isactivation, pc_adjusted, mod, symname, cudie, die, w) ==
  LET wd == get_addr_width(mod, w)
  IN  [line |-> [nr |-> n,
                 addr |-> pc_adjusted,
                 width |-> wd,
                 act |-> IF show_activation
                         THEN (IF ~isactivation THEN "- 1" ELSE "")
                         ELSE NULL,
                 name |-> RenderName(symname),
                 src |-> IF show_source
                         THEN RenderSource(FrameSource(pc_adjusted, mod, cudie, die))
                         ELSE <<>>,
                 isactivation |-> isactivation,
                 lookup |-> pc_adjusted,
                 mod |-> mod,
                 symname |-> symname,
                 die |-> die],
       width |-> wd]

\* print_frame: the line printed, and the static width afterwards.  The
\* fields lookup, mod and die of a line are not printed: they record the
\* address, module and DIE the line was resolved with.
print_frame(n, pc, isactivation, pc_adjusted, mod, symname, cudie, die, w) ==
  LET wd == get_addr_width(mod, w)
  IN  [line |-> [nr |-> n,
                 addr |-> pc,
                 width |-> wd,
                 act |-> IF show_activation
                         THEN (IF ~isactivation THEN "- 1" ELSE "")
                         ELSE NULL,
                 name |-> RenderName(symname),
                 src |-> IF show_source
                         THEN RenderSource(FrameSource(pc_adjusted, mod, cudie, die))
                         ELSE <<>>,
                 isactivation |-> isactivation,
                 lookup |-> pc_adjusted,
                 mod |-> mod,
                 symname |-> symname,
                 die |-> die],
       width |-> wd]

\* Mutant: lexical blocks taken for function-like scopes.
FunctionTags_blocks ==
  {"DW_TAG_inlined_subroutine", "DW_TAG_entry_point", "DW_TAG_subprogram",
   "DW_TAG_lexical_block"}

\* The tags of the function-like scopes.
FunctionTags ==
  {"DW_TAG_inlined_subroutine", "DW_TAG_entry_point", "DW_TAG_subprogram"}

\* The for loop of print_inline_frames from index i (scopes is 1-based here,
\* so the C loop starts at i = 2): f holds pc, isactivation, pc_adjusted, mod
\* and cudie, n is *nr.
RECURSIVE InlineLoop(_, _, _, _, _, _, _)
InlineLoop(f, scopes, i, n, last_scope, lines, w) ==
  IF ~(i <= Len(scopes) /\ (maxframes = 0 \/ n < maxframes))
  THEN [lines |-> lines, nr |-> n, width |-> w]
  ELSE LET scope == scopes[i]
           tag == DieTag(scope)
       IN  IF tag \notin FunctionTags
           THEN InlineLoop(f, scopes, i + 1, n, last_scope, lines, w)
           ELSE LET p == print_frame(n, f.pc, f.isactivation, f.pc_adjusted,
                                     f.mod, die_name(scope), f.cudie,
                                     last_scope, w)
                IN  IF tag = "DW_TAG_subprogram"
                    THEN [lines |-> Append(lines, p.line), nr |-> n + 1,
                          width |-> p.width]
                    ELSE InlineLoop(f, scopes, i + 1, n + 1, scope,
                                    Append(lines, p.line), p.width)

\* print_inline_frames: the lines printed, *nr and the static width
\* afterwards.
print_inline_frames(n, pc, isactivation, pc_adjusted, mod, symname, cudie, die, w) ==
  LET scopes == dwarf_getscopes_die(die)
  IN  IF Len(scopes) > 0
      THEN LET p == print_frame(n, pc, isactivation, pc_adjusted, mod,
                                symname, NULL, NULL, w)
               f == [pc |-> pc, isactivation |-> isactivation,
                     pc_adjusted |-> pc_adjusted, mod |-> mod, cudie |-> cudie]
           IN  InlineLoop(f, scopes, 2, n + 1, scopes[1], <<p.line>>, p.width)
      ELSE [lines |-> <<>>, nr |-> n, width |-> w]

(***************************************************************************)
(* print_frames.                                                           *)
(***************************************************************************)
\* Mutant: the adjustment made for every frame, activation or not.
pc_adjust_always(pc, isactivation) == AddrSub(pc, 1)

\* Dwarf_Addr pc_adjusted = pc - (isactivation ? 0 : 1).
pc_adjust(pc, isactivation) == AddrSub(pc, IF isactivation THEN 0 ELSE 1)

\* Mutant: the scan stops at the first function-like scope, named or not.
FindScope_first(scopes, i) ==
  LET fs == { k \in i..Len(scopes) : DieTag(scopes[k]) \in FunctionTags }
  IN  IF fs = {} THEN [symname |-> NULL, die |-> NULL]
      ELSE LET k == CHOOSE m \in fs : \A n \in fs : m <= n
           IN  IF die_name(scopes[k]) # NULL
               THEN [symname |-> die_name(scopes[k]), die |-> scopes[k]]
               ELSE [symname |-> NULL, die |-> NULL]

\* The loop "find the first function-like DIE with a name in scope", from
\* index i on (1-based).
RECURSIVE FindScope(_, _)
FindScope(scopes, i) ==
  IF i > Len(scopes) THEN [symname |-> NULL, die |-> NULL]
  ELSE LET scope == scopes[i]
           name == IF DieTag(scope) \in FunctionTags THEN die_name(scope) ELSE NULL
       IN  IF name # NULL THEN [symname |-> name, die |-> scope]
           ELSE FindScope(scopes, i + 1)

\* "Get PC->SYMNAME": mod, symname, die and cudie of an adjusted pc.
resolve(pc_adjusted) ==
  LET mod == dwfl_addrmodule(pc_adjusted)
  IN  IF mod # NULL /\ ~show_quiet
      THEN LET cudie == IF show_debugname
                        THEN dwfl_module_addrdie(mod, pc_adjusted) ELSE NULL
               found == IF show_debugname
                        THEN FindScope(dwarf_getscopes(cudie, pc_adjusted), 1)
                        ELSE [symname |-> NULL, die |-> NULL]
           IN  [mod |-> mod,
                symname |-> IF found.symname = NULL
                            THEN dwfl_module_addrname(mod, pc_adjusted)
                            ELSE found.symname,
                die |-> found.die,
                cudie |-> cudie]
      ELSE [mod |-> mod, symname |-> NULL, die |-> NULL, cudie |-> NULL]

\* One iteration of the for loop of print_frames, for the captured frame fr
\* with frame_nr = n: the lines printed, frame_nr and the static width
\* afterwards.
print_frames_body(fr, n, w) ==
  LET pc == fr.pc
      isactivation == fr.isactivation
      pc_adjusted == pc_adjust(pc, isactivation)
      r == resolve(pc_adjusted)
  IN  IF show_inlines /\ r.die # NULL
      THEN print_inline_frames(n, pc, isactivation, pc_adjusted, r.mod,
                               r.symname, r.cudie, r.die, w)
      ELSE LET p == print_frame(n, pc, isactivation, pc_adjusted, r.mod,
                                r.symname, NULL, NULL, w)
           IN  [lines |-> <<p.line>>, nr |-> n + 1, width |-> p.width]

\* Mutant: the loop goes on over the captured frames whatever the ceiling.
print_frames_more_unbounded(fs, i, n) == i < fs.frames

\* The loop condition of print_frames.
print_frames_more(fs, i, n) ==
  i < fs.frames /\ (maxframes = 0 \/ n < maxframes)

\* The module name of the unwind diagnostic.
DiagModname(mod) ==
  IF ModName(mod) = NULL \/ ModName(mod) = ""
  THEN (IF ModMainFile(mod) # NULL THEN ModMainFile(mod) ELSE "<unknown>")
  ELSE ModName(mod)

\* Mutant: the unwind diagnostic made with the pc as captured.
print_frames_diag_rawpc(fs, n, tid, err) ==
  IF fs.frames > 0 /\ n = maxframes
  THEN << [kind |-> "maxframes", tid |-> tid, addr |-> NoAddr, modname |-> NULL,
           err |-> 0] >>
  ELSE IF err # 0
       THEN IF fs.frames > 0
            THEN LET last == fs.frame[fs.frames]
                 IN  << [kind |-> "unwind", tid |-> tid, addr |-> last.pc,
                         modname |-> DiagModname(dwfl_addrmodule(last.pc)),
                         err |-> err] >>
            ELSE << [kind |-> "unwind", tid |-> tid, addr |-> NoAddr,
                     modname |-> NULL, err |-> err] >>
       ELSE <<>>

\* Mutant: the unwind diagnostic made whether or not the max-frames one is.
print_frames_diag_both(fs, n, tid, err) ==
  (IF fs.frames > 0 /\ n = maxframes
   THEN << [kind |-> "maxframes", tid |-> tid, addr |-> NoAddr,
            modname |-> NULL, err |-> 0] >>
   ELSE <<>>)
  \o (IF err # 0
      THEN << [kind |-> "unwind", tid |-> tid, addr |-> NoAddr,
               modname |-> NULL, err |-> err] >>
      ELSE <<>>)

\* The tail of print_frames: the diagnostics (calls of error (0, 0, ...))
\* made for frames fs after n lines, the walk having ended with err.
print_frames_diag(fs, n, tid, err) ==
  IF fs.frames > 0 /\ n = maxframes
  THEN << [kind |-> "maxframes", tid |-> tid, addr |-> NoAddr, modname |-> NULL,
           err |-> 0] >>
  ELSE IF err # 0
       THEN IF fs.frames > 0
            THEN LET last == fs.frame[fs.frames]
                     pc_adjusted == pc_adjust(last.pc, last.isactivation)
                 IN  << [kind |-> "unwind", tid |-> tid, addr |-> pc_adjusted,
                         modname |-> DiagModname(dwfl_addrmodule(pc_adjusted)),
                         err |-> err] >>
            ELSE << [kind |-> "unwind", tid |-> tid, addr |-> NoAddr,
                     modname |-> NULL, err |-> err] >>
       ELSE <<>>

(***************************************************************************)
(* frame_callback, thread_callback and main.                               *)
(***************************************************************************)
\* Mutant: no stop at the ceiling; the buffer grows instead.
frame_callback_nostop(fs, fr) ==
  LET n == fs.frames
      stored == IF n < Len(fs.frame) THEN [fs.frame EXCEPT ![n + 1] = fr]
                ELSE Append(fs.frame, fr)
      count == n + 1
  IN  [frames |-> [fs EXCEPT !.frames = count, !.frame = stored,
                             !.allocated = IF count = fs.allocated
                                           THEN fs.allocated * 2
                                           ELSE fs.allocated],
       ret |-> DWARF_CB_OK]

\* frame_callback for the frame fr, dwfl_frame_pc having succeeded: the
\* struct frames afterwards and the value returned.
frame_callback(fs, fr) ==
  LET n == fs.frames
      stored == IF n < Len(fs.frame) THEN [fs.frame EXCEPT ![n + 1] = fr]
                ELSE Append(fs.frame, fr)
      count == n + 1
  IN  IF count = maxframes
      THEN [frames |-> [fs EXCEPT !.frames = count, !.frame = stored],
            ret |-> DWARF_CB_ABORT]
      ELSE [frames |-> [fs EXCEPT !.frames = count, !.frame = stored,
                                  !.allocated = IF count = fs.allocated
                                                THEN fs.allocated * 2
                                                ELSE fs.allocated],
            ret |-> DWARF_CB_OK]

\* main: frames.allocated = maxframes == 0 ? 2048 : maxframes.
InitialAllocated == IF maxframes = 0 THEN DefaultAllocated ELSE maxframes

\* Mutant: an aborted walk taken for a failed one.
getframes_err_abort(ret) ==
  CASE ret = DWARF_CB_OK -> 0
    [] ret = DWARF_CB_ABORT -> dwfl_errno
    [] ret = CB_ERROR -> dwfl_errno

\* The switch on the walk's return value: the err given to print_frames.
getframes_err(ret) ==
  CASE ret = DWARF_CB_OK -> 0
    [] ret = DWARF_CB_ABORT -> 0
    [] ret = CB_ERROR -> dwfl_errno

\* Mutant: the callback ends the enumeration after a thread with a
\* diagnostic.
thread_callback_ret_stop ==
  IF dwflerr # 0 \/ cb = DWARF_CB_ABORT THEN DWARF_CB_ABORT ELSE DWARF_CB_OK

\* What thread_callback returns.
thread_callback_ret == DWARF_CB_OK

\* The exit status main ends with.
main_status(shown, count) ==
  IF ~shown THEN EXIT_BAD
  ELSE IF count # 0 THEN EXIT_ERROR ELSE EXIT_OK

\* ---- actions ----
\* main: the allocation of the frame buffer, up to the choice of the walk.
MainAlloc ==
  /\ at = "main"
  /\ frames' = [frames |-> 0, allocated |-> InitialAllocated, frame |-> <<>>]
  /\ at' = IF show_one_tid THEN "getthread_frames" ELSE "getthreads"
  /\ UNCHANGED <<optvars, frames_shown, error_message_count, width, target,
                 thread, delivered, cb, dwflerr, nr, frame_nr, out, outframe, diag,
                 nthreads, nprinted, nlines, thread_ret, getthreads_ret,
                 exit_status>>

\* Mutant: the buffer is not truncated at the start of a thread.
ThreadCallbackEnter_noreset(k) ==
  /\ at = "getthreads"
  /\ thread_ret = DWARF_CB_OK
  /\ nthreads < target.threads
  /\ thread' = [tid |-> nthreads + 1, stack |-> k.stack, end |-> k.end]
  /\ nthreads' = nthreads + 1
  /\ delivered' = 0
  /\ cb' = DWARF_CB_OK
  /\ out' = <<>>
  /\ outframe' = <<>>
  /\ diag' = <<>>
  /\ at' = "getframes"
  /\ UNCHANGED <<optvars, frames, frames_shown, error_message_count, width,
                 target, dwflerr, nr, frame_nr, nprinted, nlines, thread_ret,
                 getthreads_ret, exit_status>>

\* dwfl_getthreads hands the next thread to thread_callback, which resets
\* the buffer and starts the walk of the thread.
ThreadCallbackEnter(k) ==
  /\ at = "getthreads"
  /\ thread_ret = DWARF_CB_OK
  /\ nthreads < target.threads
  /\ thread' = [tid |-> nthreads + 1, stack |-> k.stack, end |-> k.end]
  /\ nthreads' = nthreads + 1
  /\ frames' = [frames EXCEPT !.frames = 0]
  /\ delivered' = 0
  /\ cb' = DWARF_CB_OK
  /\ out' = <<>>
  /\ outframe' = <<>>
  /\ diag' = <<>>
  /\ at' = "getframes"
  /\ UNCHANGED <<optvars, frames_shown, error_message_count, width, target,
                 dwflerr, nr, frame_nr, nprinted, nlines, thread_ret,
                 getthreads_ret, exit_status>>

\* main with -1: dwfl_getthread_frames walks the thread pid; with no such
\* thread the walk fails at once.
GetthreadFramesEnter(k) ==
  /\ at = "getthread_frames"
  /\ target.threads = 0 => k = [stack |-> "empty", end |-> "error"]
  /\ thread' = [tid |-> 1, stack |-> k.stack, end |-> k.end]
  /\ nthreads' = IF target.threads = 0 THEN 0 ELSE 1
  /\ delivered' = 0
  /\ cb' = DWARF_CB_OK
  /\ at' = "getframes"
  /\ UNCHANGED <<optvars, frames, frames_shown, error_message_count, width,
                 target, dwflerr, nr, frame_nr, out, outframe, diag, nprinted, nlines,
                 thread_ret, getthreads_ret, exit_status>>

\* The unwinder hands the next frame of the thread to frame_callback.
FrameCallback ==
  /\ at = "getframes"
  /\ cb = DWARF_CB_OK
  /\ delivered < StackLen(thread.stack)
  /\ LET r == frame_callback(frames, StackFrame(thread.stack, delivered + 1))
     IN  /\ frames' = r.frames
         /\ cb' = r.ret
  /\ delivered' = delivered + 1
  /\ UNCHANGED <<optvars, frames_shown, error_message_count, width, at, target,
                 thread, dwflerr, nr, frame_nr, out, outframe, diag, nthreads, nprinted,
                 nlines, thread_ret, getthreads_ret, exit_status>>

\* What the walk returns when it stops: the callback's DWARF_CB_ABORT, or
\* at the end of the stack DWARF_CB_OK or -1.
WalkResult ==
  IF cb # DWARF_CB_OK THEN cb
  ELSE IF thread.end = "error" THEN CB_ERROR ELSE DWARF_CB_OK

\* The walk returns; err is set and print_frames starts: frames_shown, the
\* TID header, frame_nr = 0.
GetframesReturn ==
  /\ at = "getframes"
  /\ cb # DWARF_CB_OK \/ delivered = StackLen(thread.stack)
  /\ dwflerr' = getframes_err(WalkResult)
  /\ frames_shown' = IF frames.frames > 0 THEN TRUE ELSE frames_shown
  /\ nr' = 0
  /\ frame_nr' = 0
  /\ at' = "print_frames"
  /\ UNCHANGED <<optvars, frames, error_message_count, width, target, thread,
                 delivered, cb, out, outframe, diag, nthreads, nprinted, nlines,
                 thread_ret, getthreads_ret, exit_status>>

\* What the iteration of the loop for the captured frame nr prints.
ThisIteration == print_frames_body(frames.frame[nr + 1], frame_nr, width)

\* One iteration of the for loop of print_frames.
PrintFramesLoop ==
  /\ at = "print_frames"
  /\ print_frames_more(frames, nr, frame_nr)
  /\ out' = out \o ThisIteration.lines
  /\ outframe' = outframe \o [i \in 1..Len(ThisIteration.lines) |-> nr + 1]
  /\ nlines' = nlines + Len(ThisIteration.lines)
  /\ frame_nr' = ThisIteration.nr
  /\ width' = ThisIteration.width
  /\ nr' = nr + 1
  /\ UNCHANGED <<optvars, frames, frames_shown, error_message_count, at, target,
                 thread, delivered, cb, dwflerr, diag, nthreads, nprinted,
                 thread_ret, getthreads_ret, exit_status>>

\* The loop of print_frames is over: the diagnostic, and the return of
\* thread_callback (or, with -1, of print_frames to main).
PrintFramesEnd ==
  /\ at = "print_frames"
  /\ ~print_frames_more(frames, nr, frame_nr)
  /\ LET d == print_frames_diag(frames, frame_nr, thread.tid, dwflerr)
     IN  /\ diag' = d
         /\ error_message_count' = error_message_count + Len(d)
  /\ nprinted' = nprinted + 1
  /\ IF show_one_tid
     THEN at' = "exit" /\ UNCHANGED thread_ret
     ELSE at' = "getthreads" /\ thread_ret' = thread_callback_ret
  /\ UNCHANGED <<optvars, frames, frames_shown, width, target, thread,
                 delivered, cb, dwflerr, nr, frame_nr, out, outframe, nthreads, nlines,
                 getthreads_ret, exit_status>>

\* dwfl_getthreads returns: what a callback returned if not DWARF_CB_OK,
\* DWARF_CB_OK after the last thread, or -1 when the enumeration fails.
GetthreadsReturn(res) ==
  /\ at = "getthreads"
  /\ \/ thread_ret # DWARF_CB_OK /\ res = thread_ret
     \/ thread_ret = DWARF_CB_OK /\ nthreads = target.threads /\ res = DWARF_CB_OK
     \/ thread_ret = DWARF_CB_OK /\ res = CB_ERROR
  /\ getthreads_ret' = res
  /\ error_message_count' =
       IF res = CB_ERROR THEN error_message_count + 1 ELSE error_message_count
  /\ at' = "exit"
  /\ UNCHANGED <<optvars, frames, frames_shown, width, target, thread,
                 delivered, cb, dwflerr, nr, frame_nr, out, outframe, diag, nthreads,
                 nprinted, nlines, thread_ret, exit_status>>

\* main: the exit decision.
MainExit ==
  /\ at = "exit"
  /\ exit_status' = main_status(frames_shown, error_message_count)
  /\ at' = "exited"
  /\ UNCHANGED <<optvars, frames, frames_shown, error_message_count, width,
                 target, thread, delivered, cb, dwflerr, nr, frame_nr, out, outframe,
                 diag, nthreads, nprinted, nlines, thread_ret, getthreads_ret>>

Next ==
  \/ MainAlloc
  \/ \E k \in ThreadKinds(StacksOf(target)) : ThreadCallbackEnter(k)
  \/ \E k \in ThreadKinds(StacksOf(target)) : GetthreadFramesEnter(k)
  \/ FrameCallback
  \/ GetframesReturn
  \/ PrintFramesLoop
  \/ PrintFramesEnd
  \/ \E res \in {DWARF_CB_OK, DWARF_CB_ABORT, CB_ERROR} : GetthreadsReturn(res)
  \/ MainExit

(***************************************************************************)
(* Properties.                                                             *)
(***************************************************************************)
Min(a, b) == IF a < b THEN a ELSE b

\* A thread's pass (walk and print_frames) is over; thread, frames, out and
\* diag are still those of that thread.
PassDone == nprinted > 0 /\ at \in {"getthreads", "exit", "exited"}

\* The frames the unwinder can supply for the thread being walked.
Avail == StackLen(thread.stack)

MaxframesDiag(tid) ==
  [kind |-> "maxframes", tid |-> tid, addr |-> NoAddr, modname |-> NULL, err |-> 0]

\* adj is pc for an activation, and else the address one below pc in
\* uint64_t: the one that pc follows.
IsAdjusted(pc, isactivation, adj) ==
  IF isactivation THEN adj = pc ELSE AddrAdd(adj, 1) = pc

\* The lines printed for the captured frame j.
LinesOf(j) == { i \in 1..Len(out) : outframe[i] = j }

\* The captured frames print_frames has gone through.
Visited == IF at = "print_frames" \/ PassDone THEN 1..nr ELSE {}

\* C1: once the run has exited, the exit status is BAD (2) if no frame line
\* was printed for any thread in the whole run, else ERROR (1) if at least
\* one diagnostic was recorded, else OK (0).
C1_ExitStatus ==
  at = "exited" =>
    exit_status = IF nlines = 0 THEN EXIT_BAD
                  ELSE IF error_message_count >= 1 THEN EXIT_ERROR
                  ELSE EXIT_OK

\* C2: with a ceiling C > 0, a thread's walk leaves exactly min(N, C) frames
\* in the buffer, N being the frames the unwinder can supply, and when N > C
\* exactly one diagnostic, the max-frames one, is recorded for the thread.
C2_CeilingStop ==
  (maxframes > 0 /\ PassDone) =>
    /\ frames.frames = Min(Avail, maxframes)
    /\ Avail > maxframes => diag = << MaxframesDiag(thread.tid) >>

\* C3: with no ceiling (C = 0) the buffer holds, after the walk, all N
\* frames the unwinder delivered, in order and unchanged, its capacity being
\* the default 2048 doubled some number of times; and a line is printed for
\* each of the N frames, in capture order.
C3_GrowKeepsAll ==
  (maxframes = 0 /\ PassDone) =>
    /\ frames.frames = Avail
    /\ \A i \in 1..Avail : frames.frame[i] = StackFrame(thread.stack, i)
    /\ frames.allocated > frames.frames
    /\ \E k \in 0..4 : frames.allocated = DefaultAllocated * (2 ^ k)
    /\ \A i \in 1..Avail : \E j \in LinesOf(i) : out[j].addr = frames.frame[i].pc
    /\ \A j \in 1..(Len(outframe) - 1) : outframe[j] <= outframe[j + 1]

\* C4: every line is resolved with the adjusted pc of its captured frame:
\* the pc itself for an activation, the pc minus one (in 64 bits) otherwise;
\* the module of the line is the module of that address, and so is the
\* address of the unwind diagnostic for the last captured frame.
C4_AdjustedPc ==
  /\ \A i \in 1..Len(out) :
       LET fr == frames.frame[outframe[i]]
       IN  /\ IsAdjusted(fr.pc, fr.isactivation, out[i].lookup)
           /\ out[i].mod = PcInfo(out[i].lookup).mod
  /\ \A i \in 1..Len(diag) :
       (diag[i].kind = "unwind" /\ frames.frames > 0) =>
         LET fr == frames.frame[frames.frames]
         IN  IsAdjusted(fr.pc, fr.isactivation, diag[i].addr)

\* A pass that printed an activation frame and other frames, one of them
\* in a module, and recorded an unwind diagnostic with an address.
C4_Witness ==
  /\ PassDone
  /\ \E i, j \in 1..Len(out) :
       /\ out[i].isactivation /\ out[i].lookup = out[i].addr
       /\ ~out[j].isactivation /\ out[j].lookup # out[j].addr
       /\ out[j].mod # NULL
  /\ \E i \in 1..Len(diag) : diag[i].kind = "unwind" /\ diag[i].addr # NoAddr

\* A line for the pc 0, not an activation: its adjusted pc wraps around.
C4_WitnessWrap ==
  \E i \in 1..Len(out) : out[i].addr = AddrZero /\ out[i].lookup = AddrMax

\* Scenario A: one thread with the frames 0x4010, 0x4020, 0x4030, none an
\* activation, the default ceiling 256, a walk and an enumeration that end
\* normally, and the run over.
ScenarioA ==
  /\ at = "exited"
  /\ target.threads = 1
  /\ nprinted = 1
  /\ thread.stack = "plain"
  /\ thread.end = "end"
  /\ maxframes = DefaultMaxframes
  /\ getthreads_ret = DWARF_CB_OK

PrintedAddrs == [i \in 1..Len(out) |-> out[i].addr]

\* C5 as stated: scenario A prints three frame lines with the adjusted
\* addresses 0x400f, 0x401f, 0x402f, no names, and exits OK.
C5_PrintsAdjusted ==
  ScenarioA =>
    /\ PrintedAddrs = << Addr(0, 16399), Addr(0, 16415), Addr(0, 16431) >>
    /\ \A i \in 1..Len(out) : out[i].name = NULL
    /\ exit_status = EXIT_OK

\* C5 amended: scenario A prints three frame lines with the captured
\* addresses 0x4010, 0x4020, 0x4030 (the adjusted pc is used for the lookups
\* only), no names, and exits OK.
C5_PrintsCaptured ==
  ScenarioA =>
    /\ PrintedAddrs = << Addr(0, 16400), Addr(0, 16416), Addr(0, 16432) >>
    /\ \A i \in 1..Len(out) :
         /\ out[i].name = NULL
         /\ out[i].lookup = AddrSub(out[i].addr, 1)
    /\ exit_status = EXIT_OK

C5_Witness == ScenarioA /\ Len(out) = 3

\* The scope chain inline expansion walks for the captured frame j: that of
\* the DIE its name was resolved from (<<>> when there is none).
ResolvedOf(j) ==
  resolve(pc_adjust(frames.frame[j].pc, frames.frame[j].isactivation))

ChainOf(j) ==
  IF ResolvedOf(j).die = NULL THEN <<>>
  ELSE dwarf_getscopes_die(ResolvedOf(j).die)

\* The index of the first subprogram-tagged scope of a chain at or after
\* index from, and the length of the chain when there is none.
FirstSubprogram(chain, from) ==
  LET subs == { i \in from..Len(chain) : DieTag(chain[i]) = "DW_TAG_subprogram" }
  IN  IF subs = {} THEN Len(chain)
      ELSE CHOOSE i \in subs : \A k \in subs : i <= k

\* The ceiling has not been reached by the lines printed so far.
CeilingNotReached == maxframes = 0 \/ Len(out) < maxframes

SamePcAndFlag(j) ==
  \A l \in LinesOf(j) :
    /\ out[l].addr = frames.frame[j].pc
    /\ out[l].isactivation = frames.frame[j].isactivation

\* C6 as stated: with inline expansion on and the ceiling not reached, a
\* captured pc whose chain has K scopes from the innermost resolved scope out
\* to and including the first subprogram-tagged scope gets exactly K lines,
\* all with its pc and activation flag.
C6_LinesPerScope ==
  \A j \in Visited :
    (/\ show_inlines
     /\ CeilingNotReached
     /\ ChainOf(j) # <<>>
     /\ \E i \in 1..Len(ChainOf(j)) : DieTag(ChainOf(j)[i]) = "DW_TAG_subprogram")
    => /\ Cardinality(LinesOf(j)) = FirstSubprogram(ChainOf(j), 1)
       /\ SamePcAndFlag(j)

\* The scopes that get a line after the innermost one: the function-like
\* scopes further out, up to and including the first subprogram among them.
OuterFunctionScopes(chain) ==
  SelectSeq(SubSeq(chain, 2, FirstSubprogram(chain, 2)),
            LAMBDA d : DieTag(d) \in
              {"DW_TAG_inlined_subroutine", "DW_TAG_entry_point",
               "DW_TAG_subprogram"})

\* C6 amended: with inline expansion on and the ceiling not reached, a
\* captured pc with a scope chain gets one line for the innermost resolved
\* scope and one for each scope further out that is tagged
\* inlined-subroutine, entry-point or subprogram, up to and including the
\* first subprogram-tagged scope outside the innermost one; the lines come
\* innermost first, all with the pc and activation flag of the frame, and
\* no scope with another tag and no scope further out gets a line.
C6_LinesPerFunctionScope ==
  \A j \in Visited :
    (show_inlines /\ CeilingNotReached /\ ChainOf(j) # <<>>)
    => LET outer == OuterFunctionScopes(ChainOf(j))
           lines == LinesOf(j)
       IN  /\ Cardinality(lines) = 1 + Len(outer)
           /\ SamePcAndFlag(j)
           /\ \A l \in lines :
                LET k == Cardinality({ m \in lines : m < l })
                IN  out[l].symname = IF k = 0 THEN ResolvedOf(j).symname
                                     ELSE die_name(outer[k])

\* A frame inlined two levels deep, with lexical blocks in between, has
\* been expanded into three lines.
C6_Witness ==
  \E j \in Visited :
    /\ show_inlines /\ CeilingNotReached
    /\ Len(ChainOf(j)) = 6
    /\ Cardinality(LinesOf(j)) = 3

\* C7: with a ceiling C > 0 no thread ever has more than C frame lines,
\* those of inline expansion included; with inline expansion off a thread
\* with N frames available gets exactly min(N, C) lines; and a run over one
\* thread with N = 5 and C = 2 prints 2 lines, records one diagnostic and
\* exits with ERROR.
C7_LinesWithinCeiling ==
  maxframes > 0 =>
    /\ Len(out) <= maxframes
    /\ (PassDone /\ ~show_inlines) => Len(out) = Min(Avail, maxframes)
    /\ (/\ at = "exited" /\ ~show_inlines /\ target.threads = 1
        /\ nprinted = 1 /\ getthreads_ret = DWARF_CB_OK
        /\ Avail = 5 /\ maxframes = 2)
       => /\ Len(out) = 2
          /\ error_message_count = 1
          /\ exit_status = EXIT_ERROR

\* Inline expansion has been cut short by the ceiling: a frame with a chain
\* of three function scopes got fewer lines, the count being at the ceiling.
C7_Witness ==
  /\ maxframes = 2
  /\ PassDone
  /\ show_inlines
  /\ Len(out) = maxframes
  /\ \E j \in Visited :
       Len(ChainOf(j)) = 6 /\ Cardinality(LinesOf(j)) \in {1, 2}

UnwindDiagOk(d) ==
  LET last == frames.frame[frames.frames]
  IN  /\ d.kind = "unwind"
      /\ d.tid = thread.tid
      /\ d.err = dwflerr
      /\ IsAdjusted(last.pc, last.isactivation, d.addr)
      /\ d.modname = DiagModname(PcInfo(d.addr).mod)

\* C8 as stated: when the walk of a thread ends with an error, then with no
\* frame captured no line is printed and the diagnostic names the thread
\* alone, and with frames captured they are all printed and the diagnostic
\* has the adjusted pc and the module of the last captured frame.
C8_UnwindError ==
  (PassDone /\ dwflerr # 0) =>
    IF frames.frames = 0
    THEN /\ out = <<>>
         /\ diag = << [kind |-> "unwind", tid |-> thread.tid, addr |-> NoAddr,
                       modname |-> NULL, err |-> dwflerr] >>
    ELSE /\ \A j \in 1..frames.frames : LinesOf(j) # {}
         /\ Len(diag) = 1
         /\ UnwindDiagOk(diag[1])

\* C8 amended: when the walk of a thread ends with an error, then with no
\* frame captured no line is printed and the diagnostic names the thread
\* alone; with frames captured the lines printed are lines of the captured
\* frames, in capture order, and the one diagnostic is the max-frames one
\* when the number of lines printed equals the ceiling, and otherwise has
\* the adjusted pc and the module of the last captured frame.
C8_UnwindErrorOrCeiling ==
  (PassDone /\ dwflerr # 0) =>
    IF frames.frames = 0
    THEN /\ out = <<>>
         /\ diag = << [kind |-> "unwind", tid |-> thread.tid, addr |-> NoAddr,
                       modname |-> NULL, err |-> dwflerr] >>
    ELSE /\ \A l \in 1..Len(out) :
              /\ outframe[l] \in 1..frames.frames
              /\ out[l].addr = frames.frame[outframe[l]].pc
              /\ l < Len(out) => outframe[l] <= outframe[l + 1]
         /\ Len(diag) = 1
         /\ IF Len(out) = maxframes
            THEN diag[1] = MaxframesDiag(thread.tid)
            ELSE UnwindDiagOk(diag[1])

\* The walk failed after two frames and the diagnostic has the adjusted pc
\* of the second, in a module.
C8_Witness ==
  /\ PassDone /\ dwflerr # 0
  /\ frames.frames >= 2
  /\ Len(out) # maxframes
  /\ Len(diag) = 1
  /\ diag[1].kind = "unwind"
  /\ diag[1].addr = AddrSub(frames.frame[frames.frames].pc, 1)
  /\ diag[1].modname \notin {NULL, "<unknown>"}

\* thread_callback has returned DWARF_CB_OK after every pass, and when
\* dwfl_getthreads has returned without an enumeration error every thread
\* of the target has been walked and printed.
AllThreadsDone ==
  /\ (~show_one_tid /\ nprinted > 0) => thread_ret = DWARF_CB_OK
  /\ (~show_one_tid /\ at \in {"exit", "exited"} /\ getthreads_ret # CB_ERROR)
       => (nthreads = target.threads /\ nprinted = target.threads)
  /\ at = "exited" => exit_status \in {EXIT_OK, EXIT_ERROR, EXIT_BAD}

\* A step of the program is possible: the guard of one of its actions holds.
CanStep ==
  \/ at \in {"main", "getthreads", "getthread_frames", "print_frames", "exit"}
  \/ at = "getframes" /\ delivered <= Avail

\* A bound on the steps left before the exit: each pass takes at most a
\* walk and a printing loop over the deepest stack, and three more steps.
PassSteps == 2 * LongLen + 3

StepsLeft ==
  CASE at = "exited" -> 0
    [] at = "exit" -> 1
    [] at = "getthreads" -> 2 + (target.threads - nthreads) * PassSteps
    [] at = "print_frames" ->
         2 + (target.threads - nthreads) * PassSteps + (frames.frames - nr) + 1
    [] at = "getframes" ->
         2 + (target.threads - nthreads) * PassSteps + (Avail - delivered)
           + LongLen + 2
    [] at = "getthread_frames" -> 2 + (MaxThreads + 1) * PassSteps
    [] at = "main" -> 3 + (MaxThreads + 1) * PassSteps

\* C9: no outcome of a thread's pass ends the run early: thread_callback
\* always returns DWARF_CB_OK, so every thread the provider enumerates is
\* walked and printed; and the run reaches its exit decision: before the
\* exit a step is always possible, and every step brings the exit nearer.
C9_ContinuesAfterThread ==
  /\ []AllThreadsDone
  /\ [](at # "exited" => CanStep)
  /\ [][StepsLeft' < StepsLeft /\ StepsLeft' >= 0]_vars

\* Two threads, a diagnostic recorded for each, both printed, and the run
\* has reached its exit status.
C9_Witness ==
  /\ ~show_one_tid
  /\ at = "exited"
  /\ getthreads_ret = DWARF_CB_OK
  /\ nprinted = 2
  /\ error_message_count = 2
  /\ dwflerr # 0

\* C10: when the walk returned DWARF_CB_ABORT, the err given to
\* print_frames is 0 and no unwind diagnostic is recorded, and the captured
\* frames are printed as after a normal end: with inline expansion off, one
\* line for each, in order.
C10_AbortIsNoError ==
  ((at = "print_frames" \/ PassDone) /\ cb = DWARF_CB_ABORT) =>
    /\ dwflerr = 0
    /\ PassDone => \A i \in 1..Len(diag) : diag[i].kind # "unwind"
    /\ (PassDone /\ ~show_inlines) =>
         /\ Len(out) = frames.frames
         /\ \A i \in 1..Len(out) :
              outframe[i] = i /\ out[i].addr = frames.frame[i].pc

\* A walk of a thread whose unwinding fails further down was stopped by the
\* callback, and its frames are printed.
C10_Witness ==
  /\ PassDone
  /\ cb = DWARF_CB_ABORT
  /\ thread.end = "error"
  /\ Len(out) >= 2

\* The width the address class of a module gives: 8 for a 32-bit class
\* module, 16 otherwise (no module, no ELF header, or another class).
WidthOf(mod) == IF mod # NULL /\ ModClass(mod) = "ELFCLASS32" THEN 8 ELSE 16

FirstLineOf(j) ==
  IF LinesOf(j) = {} THEN 0
  ELSE CHOOSE l \in LinesOf(j) : \A m \in LinesOf(j) : l <= m

\* The scopes of an adjusted pc that are tagged subprogram,
\* inlined-subroutine or entry-point, as indices, innermost first.
TaggedScopes(a) ==
  LET scopes == PcInfo(a).scopes
  IN  { k \in 1..Len(scopes) :
          DieTag(scopes[k]) \in {"DW_TAG_subprogram", "DW_TAG_inlined_subroutine",
                                 "DW_TAG_entry_point"} }

\* The linkage name of a DIE if present, else its plain name.
ScopeName(d) == IF DieLinkageName(d) # NULL THEN DieLinkageName(d) ELSE DieDiename(d)

\* The name resolved for an adjusted pc when the debug-name step looks at
\* the scopes in the set ks only (NULL: no name).
NameBy(a, ks) ==
  IF show_quiet \/ PcInfo(a).mod = NULL THEN NULL
  ELSE IF show_debugname /\ PcInfo(a).cudie # NULL /\ ks # {}
            /\ ScopeName(PcInfo(a).scopes[CHOOSE k \in ks : \A m \in ks : k <= m]) # NULL
       THEN ScopeName(PcInfo(a).scopes[CHOOSE k \in ks : \A m \in ks : k <= m])
       ELSE PcInfo(a).addrname

\* The name the first line of each captured frame is printed with is the
\* one NameBy gives for the scopes chosen by Pick.
NamesResolvedBy(Pick(_)) ==
  \A j \in Visited :
    FirstLineOf(j) # 0 =>
      LET l == FirstLineOf(j)
      IN  out[l].symname = NameBy(out[l].lookup, Pick(out[l].lookup))

\* C12 as stated: in quiet mode or with no module the name is absent;
\* otherwise with debug names it is the name of the first scope, innermost
\* first, tagged subprogram, inlined-subroutine or entry-point; and with
\* debug names off or nothing found it is the generic symbol of the address.
C12_FirstTaggedScope == NamesResolvedBy(TaggedScopes)

\* The tagged scopes of an adjusted pc that have a name.
NamedTaggedScopes(a) ==
  { k \in TaggedScopes(a) : ScopeName(PcInfo(a).scopes[k]) # NULL }

\* C12 amended: as above, the scope being the first one, innermost first,
\* that is tagged subprogram, inlined-subroutine or entry-point and has a
\* name: a tagged scope with neither a linkage name nor a plain name is
\* passed over, and the scan goes on outward.
C12_FirstNamedTaggedScope == NamesResolvedBy(NamedTaggedScopes)

\* With debug names, a frame in an unnamed inlined subroutine has been
\* printed with the name of the enclosing subprogram, which is not the
\* generic symbol of its address, and another frame with the name of its
\* innermost subprogram.
C12_Witness ==
  /\ show_debugname /\ ~show_quiet
  /\ PassDone
  /\ \E l \in 1..Len(out) :
       /\ out[l].lookup = Addr(0, 20483)
       /\ out[l].symname = "main"
       /\ PcInfo(out[l].lookup).addrname # "main"
  /\ \E l \in 1..Len(out) : out[l].symname = "nested"

\* C13: frames_shown is true at the end of the run if and only if a frame
\* line was printed for some thread during the run; while the run goes on it
\* is true only if a line has been printed or the thread being printed is
\* about to get its first; and it is never reset.
C13_ShownIffPrinted ==
  /\ at = "exited" => (frames_shown <=> nlines > 0)
  /\ (frames_shown /\ at # "print_frames") => nlines > 0

\* C14: a line whose resolved name begins with "_Z" shows, in raw mode, the
\* name verbatim, and with raw mode off the demangled form when the
\* demangler succeeds and the mangled name unchanged when it fails; and
\* printing lines records no diagnostic.
C14_Demangle ==
  /\ [](\A l \in 1..Len(out) :
          HasZPrefix(out[l].symname) =>
            out[l].name = IF show_raw THEN out[l].symname
                          ELSE IF cxa_demangle(out[l].symname).status = 0
                               THEN cxa_demangle(out[l].symname).name
                               ELSE out[l].symname)
  /\ [][out' # out /\ out' # <<>> =>
          error_message_count' = error_message_count]_vars

\* With raw mode off, a pass has printed a demangled name and a "_Z" name
\* the demangler rejected.
C14_Witness ==
  /\ ~show_raw
  /\ PassDone
  /\ \E l \in 1..Len(out) :
       /\ out[l].symname = "_Z3foov" /\ out[l].name = "foo()"
  /\ \E l \in 1..Len(out) :
       /\ out[l].symname = "_Zbad" /\ out[l].name = "_Zbad"
  /\ error_message_count = 0

\* In raw mode a pass has printed, verbatim, a name the demangler accepts.
C14_WitnessRaw ==
  /\ show_raw
  /\ PassDone
  /\ \E l \in 1..Len(out) :
       /\ out[l].symname = "_Z3foov" /\ out[l].name = "_Z3foov"

\* C15: once the buffer is allocated its length never exceeds its capacity,
\* and whenever the unwinder is about to call frame_callback the index
\* written is below the capacity; the initial capacity is C for a ceiling
\* C > 0 and 2048 for C = 0; with C > 0 the capacity never changes, and with
\* C = 0 it changes only by doubling, when the length has reached it.
C15_Capacity ==
  /\ [](at # "main" =>
          /\ frames.frames <= frames.allocated
          /\ Len(frames.frame) <= frames.allocated
          /\ (at = "getframes" /\ cb = DWARF_CB_OK /\ delivered < Avail)
               => frames.frames < frames.allocated
          /\ maxframes > 0 => frames.allocated = maxframes)
  /\ [][/\ at = "main" =>
             frames'.allocated = IF maxframes > 0 THEN maxframes ELSE 2048
        /\ (at # "main" /\ frames'.allocated # frames.allocated) =>
             /\ maxframes = 0
             /\ frames'.allocated = 2 * frames.allocated
             /\ frames'.frames = frames.allocated]_vars

\* With no ceiling the buffer has been doubled from 2048 to 4096 and holds
\* more than 2048 frames.
C15_Witness ==
  /\ maxframes = 0
  /\ frames.allocated = 2 * DefaultAllocated
  /\ frames.frames > DefaultAllocated
  /\ Len(frames.frame) = frames.frames

\* The buffer holds the frames the walk of the current thread has captured
\* so far, and nothing of an earlier thread; every line printed is a line
\* of one of them, and the lines come in capture order.
OwnFramesOnly ==
  (at \in {"getframes", "print_frames"} \/ PassDone) =>
    /\ frames.frames = delivered
    /\ \A i \in 1..frames.frames : frames.frame[i] = StackFrame(thread.stack, i)
    /\ \A l \in 1..Len(out) :
         /\ outframe[l] \in 1..frames.frames
         /\ out[l].addr = StackFrame(thread.stack, outframe[l]).pc
         /\ out[l].isactivation = StackFrame(thread.stack, outframe[l]).isactivation
         /\ l < Len(out) => outframe[l] <= outframe[l + 1]
    /\ frames.frames = 0 => (out = <<>> /\ (at # "getframes" => frame_nr = 0))

\* C16 as stated: the buffer is truncated at the start of each thread, and
\* the frames printed for a thread are exactly those captured during its
\* own walk, in capture order: each of them is printed.
C16_ExactlyOwnFrames ==
  /\ OwnFramesOnly
  /\ PassDone => \A j \in 1..frames.frames : LinesOf(j) # {}

\* C16 amended: the buffer is truncated at the start of each thread; every
\* line printed for a thread is a line of a frame captured during its own
\* walk, in capture order, and no frame of an earlier thread is printed or
\* counted; with inline expansion off the frames printed are exactly the
\* captured ones, one line each.  (With inline expansion on, captured
\* frames can be left unprinted.)
C16_OnlyOwnFrames ==
  /\ OwnFramesOnly
  /\ (PassDone /\ ~show_inlines) =>
       /\ Len(out) = frames.frames
       /\ \A l \in 1..Len(out) : outframe[l] = l

\* The second thread captured fewer frames than the first, whose frames
\* are still in the storage, and exactly its own frames were printed.
C16_Witness ==
  /\ PassDone
  /\ nprinted = 2
  /\ frames.frames >= 1
  /\ Len(frames.frame) > frames.frames
  /\ Len(out) = frames.frames
  /\ out[1].addr = StackFrame(thread.stack, 1).pc
  /\ out[1].addr # frames.frame[Len(frames.frame)].pc

\* The second thread captured no frame after a first that did: nothing is
\* printed for it.
C16_WitnessEmpty ==
  /\ PassDone
  /\ nprinted = 2
  /\ frames.frames = 0
  /\ Len(frames.frame) > 0
  /\ out = <<>>

\* The scopes that get a line for the captured frame j under inline
\* expansion, innermost first: the resolved scope, then the function-like
\* scopes further out up to the first subprogram.
EmittedScopes(j) == <<ResolvedOf(j).die>> \o OuterFunctionScopes(ChainOf(j))

\* The source position the direct lookup of an adjusted pc gives, as
\* printed.
DirectSource(a) ==
  RenderSource(IF PcInfo(a).mod = NULL
               THEN [sname |-> NULL, line |-> -1, col |-> -1]
               ELSE PcInfo(a).src)

\* The source position the call attributes of a scope give, as printed.
CallSource(d) ==
  RenderSource([sname |-> DieCall(d).file, line |-> DieCall(d).line,
                col |-> DieCall(d).col])

\* C17: with source display on, the first line of a captured pc under
\* inline expansion has the source position of the direct pc-to-line lookup,
\* and each further line the one given by the call attributes of the scope
\* of the line before it; outside inline expansion the position is always
\* that of the direct lookup.
C17_SourcePositions ==
  show_source =>
    \A j \in Visited :
      LET first == FirstLineOf(j)
          expanded == show_inlines /\ ResolvedOf(j).die # NULL
      IN  \A l \in LinesOf(j) :
            out[l].src = IF expanded /\ l > first
                         THEN CallSource(EmittedScopes(j)[l - first])
                         ELSE DirectSource(out[l].lookup)

\* A frame inlined two levels deep has three lines: the first with the
\* position of the pc, the second and third with the call positions of the
\* two inlined subroutines, and these positions differ.
C17_Witness ==
  /\ show_source /\ show_inlines
  /\ \E j \in Visited :
       /\ Cardinality(LinesOf(j)) = 3
       /\ LET l == FirstLineOf(j)
          IN  /\ out[l].src = <<"a.h", 30>>
              /\ out[l + 1].src = <<"a.h", 20>>
              /\ out[l + 2].src = <<"o.c", 10, 3>>

\* With source display on and inline expansion off, a frame inside an
\* inlined subroutine has the position of its pc.
C17_WitnessPlain ==
  /\ show_source /\ ~show_inlines
  /\ \E l \in 1..Len(out) : out[l].lookup = Addr(0, 8199) /\ out[l].src = <<"a.h", 30>>

\* The lines printed for the thread have reached a ceiling C > 0.
CeilingReached == maxframes > 0 /\ Len(out) = maxframes

\* C18: a thread's pass records at most one diagnostic and raises the error
\* count by at most one: the max-frames notice and the unwind message
\* exclude each other, the notice goes first when the walk failed and the
\* lines reached the ceiling, and the unwind message is made only when they
\* did not reach it.
C18_OneDiagnostic ==
  /\ [](PassDone =>
          /\ Len(diag) <= 1
          /\ \A i \in 1..Len(diag) :
               /\ diag[i].kind \in {"maxframes", "unwind"}
               /\ diag[i].kind = "unwind" => (dwflerr # 0 /\ ~CeilingReached)
          /\ (dwflerr # 0 /\ CeilingReached) => diag = << MaxframesDiag(thread.tid) >>)
  /\ [][/\ (at \in {"getframes", "print_frames"} /\ at' \in {"getframes", "print_frames"})
             => error_message_count' = error_message_count
        /\ (at = "print_frames" /\ at' # "print_frames")
             => /\ error_message_count' = error_message_count + Len(diag')
                /\ error_message_count' <= error_message_count + 1]_vars

\* The walk of a thread failed and its lines reached the ceiling: the one
\* diagnostic of the pass is the max-frames notice.
C18_Witness ==
  /\ PassDone
  /\ dwflerr # 0
  /\ CeilingReached
  /\ diag = << MaxframesDiag(thread.tid) >>
  /\ error_message_count = 1

\* C19: with a ceiling C > 0 the max-frames diagnostic is recorded for a
\* thread if and only if it captured a frame and the lines printed for it,
\* those of inline expansion included, number C; with inline expansion off a
\* walk that ends normally with N < C frames records no diagnostic; and
\* with C = 0 the max-frames diagnostic is never recorded.
C19_MaxframesDiagIff ==
  PassDone =>
    LET notice == \E i \in 1..Len(diag) : diag[i].kind = "maxframes"
    IN  /\ maxframes > 0 =>
             (notice <=> (frames.frames > 0 /\ Len(out) = maxframes))
        /\ (maxframes > 0 /\ ~show_inlines /\ thread.end = "end"
            /\ Avail < maxframes) => diag = <<>>
        /\ maxframes = 0 => ~notice

Spec == Init /\ [][Next]_vars

SpecLong == InitLong /\ [][Next]_vars
====
